---- MODULE Spec2Model ----
(***************************************************************************)
(* Studio Foam website scripts: the mobile menu (initMobileMenu), the FAQ   *)
(* accordion (initFAQ), the scroll-triggered reveal animations             *)
(* (initScrollAnimations) and the foam cell timing assignment              *)
(* (initFoamAnimation), as run by the DOMContentLoaded handler, and the    *)
(* exported form validation helper (validateForm).                         *)
(*                                                                         *)
(* Indices are 0-based as in the script: watched elements are              *)
(* 0..nElements-1 in document order, primary foam cells 0..nPrimary-1,     *)
(* interstitial foam cells 0..nInterstitial-1.                             *)
(*                                                                         *)
(* Environment: the browser invokes the IntersectionObserver callback with *)
(* a non-empty list of entries, each entry for a target that is under      *)
(* observation at that moment, each target at most once per notification.  *)
(* Time advances in steps of 100 ms, and a due timer fires before time     *)
(* advances further. Every .faq-item contains a .faq-question, and the     *)
(* page loads with the mobile menu closed.                                 *)
(***************************************************************************)
EXTENDS Integers, Sequences, FiniteSets, TLC

\* ---------------------------------------------------------------- bounds
MaxElements == 3
MaxPrimary == 4
MaxInterstitial == 2
MaxFaq == 3
MaxLinks == 2
MaxEmailLen == 5
MaxTextLen == 1
MaxRequired == 1

\* ------------------------------------------------------------- variables
VARIABLES
    pc,              \* "loading" before DOMContentLoaded, "ready" after
    hasIO,           \* 'IntersectionObserver' in window
    nElements,       \* length of animatedElements
    style,           \* inline style of each watched element
    mutations,       \* number of style assignments made on each watched element
    observerCreated, \* new IntersectionObserver(...) was evaluated
    observeCalls,    \* number of observer.observe(el) calls
    observed,        \* targets the observer currently observes
    timers,          \* pending setTimeout callbacks, in creation order
    scheduled,       \* number of setTimeout calls made for each element
    reveals,         \* number of reveal callbacks run for each element
    reported,        \* elements some notification reported as intersecting
    lastEntries,     \* entries of the most recent notification
    lastTimers,      \* the timers that notification created, in order
    nPrimary,        \* length of foamCells
    nInterstitial,   \* length of interstitialCells
    hasSvg,          \* document.querySelector('.foam-cells') is not null
    rafRequests,     \* number of requestAnimationFrame calls
    rafPending,      \* the animation-frame callback is scheduled, not yet run
    frameRan,        \* the animation-frame callback has run
    primary,         \* style, classes and write counts of each primary cell
    interstitial,    \* the same for each interstitial cell
    bboxQueries,     \* number of getBBox calls
    threwPrimary,    \* primary cells whose getBBox threw
    threwInterstitial, \* interstitial cells whose getBBox threw
    uncaught,        \* an exception escaped a handler
    hasToggle,       \* document.querySelector('.nav-toggle') is not null
    hasMenu,         \* document.querySelector('.mobile-menu') is not null
    nLinks,          \* number of a elements inside the mobile menu
    menuWired,       \* initMobileMenu attached its listeners
    menuActive,      \* mobileMenu.classList contains 'active'
    toggleActive,    \* toggle.classList contains 'active'
    bodyOverflow,    \* document.body.style.overflow
    lastMenuEvent,   \* the last event a menu listener or the keydown listener got
    nFaq,            \* length of faqItems
    faqWired,        \* initFAQ attached its click listeners
    faqActive,       \* for each FAQ item: classList contains 'active'
    lastFaqClicked,  \* the item whose question was clicked last, -1 if none
    faqWasActive,    \* isActive in that click's handler
    hasEmail,        \* formElement.querySelector('input[type="email"]') is not null
    emailRequired,   \* that input has the required attribute
    emailValue,      \* email.value, a sequence of characters
    emailError,      \* email.classList contains 'error'
    nRequired,       \* number of the other [required] fields of the form
    reqValue,        \* field.value of each of them
    reqError,        \* field.classList contains 'error', for each of them
    lastResult       \* what validateForm returned since the last edit, "none" if not called

scrollVars == <<hasIO, nElements, style, mutations, observerCreated, observeCalls,
                observed, timers, scheduled, reveals, reported, lastEntries,
                lastTimers>>
foamVars == <<nPrimary, nInterstitial, hasSvg, rafRequests, rafPending, frameRan,
              primary, interstitial, bboxQueries, threwPrimary, threwInterstitial>>
menuVars == <<hasToggle, hasMenu, nLinks, menuWired, menuActive, toggleActive,
              bodyOverflow, lastMenuEvent>>
faqVars == <<nFaq, faqWired, faqActive, lastFaqClicked, faqWasActive>>
formVars == <<hasEmail, emailRequired, emailValue, emailError, nRequired, reqValue,
              reqError, lastResult>>
vars == <<pc, scrollVars, foamVars, uncaught, menuVars, faqVars, formVars>>

Elements == 0 .. (nElements - 1)

\* ------------------------------------------------- watched element styles
\* An element the script has not styled: the inline style is empty.
UnsetStyle == [opacity |-> "", transform |-> "", transition |-> ""]

\* script.js lines 127-131: the initial (hidden) state.
HiddenStyle == [opacity |-> "0", transform |-> "translateY(20px)",
                transition |-> "opacity 0.5s ease, transform 0.5s ease"]

\* Variant: the reveal callback sets the opacity only.
RevealStyle_OpacityOnly(s) == [s EXCEPT !.opacity = "1"]

\* script.js lines 138-139: the two assignments of the reveal callback.
RevealStyle(s) == [s EXCEPT !.opacity = "1", !.transform = "translateY(0)"]

IsHidden(s) == s.opacity = "0" /\ s.transform = "translateY(20px)"
IsRevealed(s) == s.opacity = "1" /\ s.transform = "translateY(0)"

\* ---------------------------------------------------------- stagger delay
StaggerStep == 100

\* Variant: the delay counts positions from 1.
StaggerDelay_OneBased(index) == (index + 1) * StaggerStep

\* setTimeout(..., index * 100)
StaggerDelay(index) == index * StaggerStep

\* ------------------------------------------------- IntersectionObserver
\* An entry of a notification: the target and whether it intersects.
Entry(t, i) == [target |-> t, isIntersecting |-> i]

\* The notifications the browser can deliver while obs is observed: non-empty
\* lists of entries for observed targets, no target twice.
EntryLists(obs) ==
    UNION { { s \in [1 .. k -> { Entry(t, i) : t \in obs, i \in BOOLEAN }] :
                \A p, q \in 1 .. k : p # q => s[p].target # s[q].target }
            : k \in 1 .. Cardinality(obs) }

\* Variant: the callback does not test isIntersecting.
IntersectingPositions_All(entries) == [p \in 1 .. Len(entries) |-> p]

\* Positions of the entries for which the callback takes the isIntersecting branch.
IntersectingPositions(entries) ==
    SelectSeq([p \in 1 .. Len(entries) |-> p], LAMBDA p : entries[p].isIntersecting)

\* The setTimeout calls of one callback run, in call order. forEach passes the
\* 0-based position of the entry among all entries of the notification.
NewTimers(entries) ==
    LET pos == IntersectingPositions(entries)
    IN  [k \in 1 .. Len(pos) |->
            [target |-> entries[pos[k]].target,
             delay |-> StaggerDelay(pos[k] - 1),
             remaining |-> StaggerDelay(pos[k] - 1)]]

\* Variant: the callback unobserves the entries that do not intersect.
Unobserve_NotIntersecting(obs, entries) ==
    obs \ { entries[p].target : p \in { q \in 1 .. Len(entries) : ~entries[q].isIntersecting } }

\* Variant: the callback never unobserves.
Unobserve_Skipped(obs, entries) == obs

\* observer.unobserve(entry.target) for every intersecting entry.
Unobserve(obs, entries) ==
    obs \ { entries[p].target : p \in { q \in 1 .. Len(entries) : entries[q].isIntersecting } }

\* ------------------------------------------------------------ operations
\* Variant: the hidden initial state is applied before the capability check.
InitScrollAnimations_HideBeforeCheck ==
    /\ style' = [e \in Elements |-> HiddenStyle]
    /\ mutations' = [e \in Elements |-> mutations[e] + 3]
    /\ IF ~hasIO \/ nElements = 0
       THEN UNCHANGED <<observerCreated, observeCalls, observed>>
       ELSE /\ observerCreated' = TRUE
            /\ observeCalls' = observeCalls + nElements
            /\ observed' = Elements

\* Variant: no early return on an empty selection.
InitScrollAnimations_NoEmptyCheck ==
    IF ~hasIO
    THEN UNCHANGED <<style, mutations, observerCreated, observeCalls, observed>>
    ELSE /\ style' = [e \in Elements |-> HiddenStyle]
         /\ mutations' = [e \in Elements |-> mutations[e] + 3]
         /\ observerCreated' = TRUE
         /\ observeCalls' = observeCalls + nElements
         /\ observed' = Elements

\* initScrollAnimations(): capability check, selection, empty check, hidden
\* initial state, observer construction, observe every element.
InitScrollAnimations ==
    IF ~hasIO
    THEN UNCHANGED <<style, mutations, observerCreated, observeCalls, observed>>
    ELSE IF nElements = 0
    THEN UNCHANGED <<style, mutations, observerCreated, observeCalls, observed>>
    ELSE /\ style' = [e \in Elements |-> HiddenStyle]
         /\ mutations' = [e \in Elements |-> mutations[e] + 3]
         /\ observerCreated' = TRUE
         /\ observeCalls' = observeCalls + nElements
         /\ observed' = Elements

\* The IntersectionObserver callback, run on one notification.
IntersectionCallback(entries) ==
    /\ pc = "ready"
    /\ observerCreated
    /\ timers' = timers \o NewTimers(entries)
    /\ observed' = Unobserve(observed, entries)
    /\ scheduled' = [e \in Elements |->
                        scheduled[e] + Len(SelectSeq(NewTimers(entries),
                                                     LAMBDA t : t.target = e))]
    /\ reported' = reported \cup
                     { entries[p].target : p \in { q \in 1 .. Len(entries) :
                                                       entries[q].isIntersecting } }
    /\ lastEntries' = entries
    /\ lastTimers' = [k \in 1 .. Len(NewTimers(entries)) |->
                         [target |-> NewTimers(entries)[k].target,
                          delay |-> NewTimers(entries)[k].delay]]
    /\ UNCHANGED <<pc, hasIO, nElements, style, mutations, observerCreated,
                   observeCalls, reveals, foamVars, uncaught, menuVars, faqVars, formVars>>

\* Position in timers of the timer that fires next: the earliest created
\* among those that are due.
DuePositions == { p \in 1 .. Len(timers) : timers[p].remaining = 0 }

\* The setTimeout callback: the reveal.
TimerFire ==
    /\ DuePositions # {}
    /\ LET p == CHOOSE q \in DuePositions : \A r \in DuePositions : q <= r
           t == timers[p].target
       IN  /\ style' = [style EXCEPT ![t] = RevealStyle(@)]
           /\ mutations' = [mutations EXCEPT ![t] = @ + 2]
           /\ reveals' = [reveals EXCEPT ![t] = @ + 1]
           /\ timers' = SubSeq(timers, 1, p - 1) \o SubSeq(timers, p + 1, Len(timers))
    /\ UNCHANGED <<pc, hasIO, nElements, observerCreated, observeCalls, observed,
                   scheduled, reported, lastEntries, lastTimers, foamVars, uncaught,
                   menuVars, faqVars, formVars>>

\* 100 ms pass; no timer is due.
Tick ==
    /\ timers # <<>>
    /\ DuePositions = {}
    /\ timers' = [p \in 1 .. Len(timers) |->
                     [timers[p] EXCEPT !.remaining = @ - StaggerStep]]
    /\ UNCHANGED <<pc, hasIO, nElements, style, mutations, observerCreated,
                   observeCalls, observed, scheduled, reveals, reported,
                   lastEntries, lastTimers, foamVars, uncaught, menuVars, faqVars, formVars>>

\* ------------------------------------------------------------ foam cells
PrimaryCells == 0 .. (nPrimary - 1)
InterstitialCells == 0 .. (nInterstitial - 1)

\* A cell the script has not touched. animationDelay and animationDuration
\* are <<>> while unset and <<v>> once set, v in units of 1/10000 second
\* (the script writes the number followed by "s").
UnsetCell ==
    [transformOrigin |-> [kind |-> "unset", x |-> 0, y |-> 0],
     classes |-> {},
     animationDelay |-> <<>>,
     animationDuration |-> <<>>,
     originWrites |-> 0, classWrites |-> 0, delayWrites |-> 0, durationWrites |-> 0]

\* Math.random() returns a value in [0, 1): a draw r stands for r / 1000.
RandomDraws == <<0, 999, 500, 250>>

\* The k-th value (k = 0, 1, ...) of the generator started from seed.
Random(seed, k) == RandomDraws[((seed + k) % Len(RandomDraws)) + 1]

\* The rendered geometry getBBox reports for a cell that does not throw.
PrimaryBBox(index) == [x |-> 40 * index, y |-> 10, width |-> 30, height |-> 20]
InterstitialBBox(index) == [x |-> 40 * index + 30, y |-> 20, width |-> 10, height |-> 10]

\* `${centerX}px ${centerY}px` with centerX = x + width / 2, centerY = y + height / 2.
OriginOf(bbox) ==
    [kind |-> "px", x |-> bbox.x + bbox.width \div 2, y |-> bbox.y + bbox.height \div 2]

CenterCenter == [kind |-> "center center", x |-> 0, y |-> 0]

\* index * -1.5 + (Math.random() - 0.5) * 0.8, in 1/10000 s, for a draw r.
PrimaryDelay(index, r) == index * (-15000) + (r - 500) * 8

\* Variant: the draw is not centred on zero.
PrimaryDuration_Uncentred(r) == 200000 + r * 20

\* 20 + (Math.random() - 0.5) * 2
PrimaryDuration(r) == 200000 + (r - 500) * 20

\* index * -0.6 + (Math.random() - 0.5) * 1.5
InterstitialDelay(index, r) == index * (-6000) + (r - 500) * 15

\* 5 + (Math.random() - 0.5) * 1.5
InterstitialDuration(r) == 50000 + (r - 500) * 15

\* Variant: an empty catch block.
CatchBBoxFailure_Empty(cell) == cell

\* The catch block: fall back to the default origin.
CatchBBoxFailure(cell) ==
    [cell EXCEPT !.transformOrigin = CenterCenter, !.originWrites = @ + 1]

\* The try block of a primary cell whose getBBox returned bbox; r1 and r2 are
\* its two Math.random() draws, in call order.
PrimaryTry(cell, index, bbox, r1, r2) ==
    [cell EXCEPT
        !.transformOrigin = OriginOf(bbox),
        !.originWrites = @ + 1,
        !.classes = IF index % 2 = 1 THEN @ \cup {"phase-contract"} ELSE @,
        !.classWrites = IF index % 2 = 1 THEN @ + 1 ELSE @,
        !.animationDelay = <<PrimaryDelay(index, r1)>>,
        !.delayWrites = @ + 1,
        !.animationDuration = <<PrimaryDuration(r2)>>,
        !.durationWrites = @ + 1]

\* The try block of an interstitial cell.
InterstitialTry(cell, index, bbox, r1, r2) ==
    [cell EXCEPT
        !.transformOrigin = OriginOf(bbox),
        !.originWrites = @ + 1,
        !.animationDelay = <<InterstitialDelay(index, r1)>>,
        !.delayWrites = @ + 1,
        !.animationDuration = <<InterstitialDuration(r2)>>,
        !.durationWrites = @ + 1]

\* One iteration of foamCells.forEach: try { ... } catch (e) { ... }.
\* throws: getBBox throws for this cell; k: Math.random() calls made so far.
PrimaryIteration(cell, index, throws, seed, k) ==
    IF throws
    THEN CatchBBoxFailure(cell)
    ELSE PrimaryTry(cell, index, PrimaryBBox(index), Random(seed, k), Random(seed, k + 1))

\* One iteration of interstitialCells.forEach.
InterstitialIteration(cell, index, throws, seed, k) ==
    IF throws
    THEN CatchBBoxFailure(cell)
    ELSE InterstitialTry(cell, index, InterstitialBBox(index),
                         Random(seed, k), Random(seed, k + 1))

\* Math.random() calls made by the iterations before index: two per cell whose
\* getBBox did not throw.
DrawsBefore(index, throwing) ==
    2 * Cardinality({ j \in 0 .. (index - 1) : j \notin throwing })

\* Variant: returns early only when both selections are empty.
InitFoamAnimation_AnyCells ==
    IF nPrimary = 0 /\ nInterstitial = 0
    THEN UNCHANGED <<rafRequests, rafPending, primary, interstitial, bboxQueries>>
    ELSE IF ~hasSvg
    THEN UNCHANGED <<rafRequests, rafPending, primary, interstitial, bboxQueries>>
    ELSE /\ rafRequests' = rafRequests + 1
         /\ rafPending' = TRUE
         /\ UNCHANGED <<primary, interstitial, bboxQueries>>

\* Variant: the two loops run inside the call instead of in a frame callback.
InitFoamAnimation_Synchronous ==
    IF nPrimary = 0 \/ ~hasSvg
    THEN UNCHANGED <<rafRequests, rafPending, primary, interstitial, bboxQueries>>
    ELSE /\ primary' = [i \in PrimaryCells |->
                           PrimaryIteration(primary[i], i, FALSE, 0, 2 * i)]
         /\ interstitial' = [j \in InterstitialCells |->
                                InterstitialIteration(interstitial[j], j, FALSE, 0,
                                                      2 * nPrimary + 2 * j)]
         /\ bboxQueries' = bboxQueries + nPrimary + nInterstitial
         /\ UNCHANGED <<rafRequests, rafPending>>

\* Variant: no early return when the container is missing.
InitFoamAnimation_NoContainerCheck ==
    IF nPrimary = 0
    THEN UNCHANGED <<rafRequests, rafPending, primary, interstitial, bboxQueries>>
    ELSE /\ rafRequests' = rafRequests + 1
         /\ rafPending' = TRUE
         /\ UNCHANGED <<primary, interstitial, bboxQueries>>

\* initFoamAnimation(): both selections, the two early returns, then
\* requestAnimationFrame.
InitFoamAnimation ==
    IF nPrimary = 0
    THEN UNCHANGED <<rafRequests, rafPending, primary, interstitial, bboxQueries>>
    ELSE IF ~hasSvg
    THEN UNCHANGED <<rafRequests, rafPending, primary, interstitial, bboxQueries>>
    ELSE /\ rafRequests' = rafRequests + 1
         /\ rafPending' = TRUE
         /\ UNCHANGED <<primary, interstitial, bboxQueries>>

\* The animation-frame callback: both forEach loops. throwingP and throwingI
\* are the cells whose getBBox throws, seed the state of Math.random.
AnimationFrame(throwingP, throwingI, seed) ==
    /\ rafPending
    /\ rafPending' = FALSE
    /\ frameRan' = TRUE
    /\ primary' = [i \in PrimaryCells |->
                      PrimaryIteration(primary[i], i, i \in throwingP, seed,
                                       DrawsBefore(i, throwingP))]
    /\ interstitial' = [j \in InterstitialCells |->
                           InterstitialIteration(interstitial[j], j, j \in throwingI, seed,
                                                 DrawsBefore(nPrimary, throwingP)
                                                   + DrawsBefore(j, throwingI))]
    /\ bboxQueries' = bboxQueries + nPrimary + nInterstitial
    /\ threwPrimary' = threwPrimary \cup throwingP
    /\ threwInterstitial' = threwInterstitial \cup throwingI
    /\ UNCHANGED <<pc, scrollVars, nPrimary, nInterstitial, hasSvg, rafRequests, uncaught,
                   menuVars, faqVars, formVars>>

\* ------------------------------------------------------------ mobile menu
\* initMobileMenu(): returns early unless both elements exist, then attaches
\* the toggle, link and keydown listeners.
InitMobileMenu ==
    /\ menuWired' = (hasToggle /\ hasMenu)
    /\ UNCHANGED <<menuActive, toggleActive, bodyOverflow, lastMenuEvent>>

\* Variant: the scroll lock follows the state before the toggle.
OverflowAfterToggle_Inverted(isOpen) == IF isOpen THEN "hidden" ELSE ""

\* document.body.style.overflow = isOpen ? '' : 'hidden'
OverflowAfterToggle(isOpen) == IF isOpen THEN "" ELSE "hidden"

\* The click listener of the toggle button.
ToggleClick ==
    /\ pc = "ready"
    /\ menuWired
    /\ menuActive' = ~menuActive
    /\ toggleActive' = ~toggleActive
    /\ bodyOverflow' = OverflowAfterToggle(menuActive)
    /\ lastMenuEvent' = "toggle"
    /\ UNCHANGED <<pc, scrollVars, foamVars, uncaught, hasToggle, hasMenu, nLinks,
                   menuWired, faqVars, formVars>>

\* The click listener of a link of the mobile menu.
LinkClick(link) ==
    /\ pc = "ready"
    /\ menuWired
    /\ menuActive' = FALSE
    /\ toggleActive' = FALSE
    /\ bodyOverflow' = ""
    /\ lastMenuEvent' = "link"
    /\ UNCHANGED <<pc, scrollVars, foamVars, uncaught, hasToggle, hasMenu, nLinks,
                   menuWired, faqVars, formVars>>

\* The keys pressed.
Keys == {"Escape", "Enter"}

\* The keydown listener of the document.
KeyDown(key) ==
    /\ pc = "ready"
    /\ menuWired
    /\ IF key = "Escape" /\ menuActive
       THEN /\ menuActive' = FALSE
            /\ toggleActive' = FALSE
            /\ bodyOverflow' = ""
       ELSE UNCHANGED <<menuActive, toggleActive, bodyOverflow>>
    /\ lastMenuEvent' = key
    /\ UNCHANGED <<pc, scrollVars, foamVars, uncaught, hasToggle, hasMenu, nLinks,
                   menuWired, faqVars, formVars>>

\* ---------------------------------------------------------- FAQ accordion
FaqItems == 0 .. (nFaq - 1)

\* initFAQ(): returns early on an empty selection, else attaches a click
\* listener to the question of every item.
InitFAQ ==
    /\ faqWired' = (nFaq > 0)
    /\ UNCHANGED <<faqActive, lastFaqClicked, faqWasActive>>

\* Variant: the other items are left as they are.
FaqCloseOthers_Skipped(active, item) == active

\* faqItems.forEach(otherItem => { if (otherItem !== item) remove 'active' })
FaqCloseOthers(active, item) ==
    [j \in DOMAIN active |-> IF j # item THEN FALSE ELSE active[j]]

\* item.classList.toggle('active', force): add when force, remove otherwise.
FaqToggle(active, item, force) == [active EXCEPT ![item] = force]

\* The click listener of the question of item.
FaqClick(item) ==
    /\ pc = "ready"
    /\ faqWired
    /\ LET isActive == faqActive[item]
       IN  /\ faqActive' = FaqToggle(FaqCloseOthers(faqActive, item), item, ~isActive)
           /\ faqWasActive' = isActive
    /\ lastFaqClicked' = item
    /\ UNCHANGED <<pc, scrollVars, foamVars, uncaught, menuVars, nFaq, faqWired, formVars>>

\* -------------------------------------------------------- form validation
\* Field values are sequences of characters: a letter, a space, '@' and '.'
\* stand for the four classes of characters the script tells apart.
EmailChars == {"a", " ", "@", "."}
TextChars == {"a", " "}

\* The sequences over chars of length at most n.
Strings(chars, n) == UNION { [1 .. k -> chars] : k \in 0 .. n }

RequiredFields == 0 .. (nRequired - 1)

\* \s of the regular expression, and the characters trim() strips.
IsSpace(c) == c = " "

RECURSIVE TrimStart(_)
TrimStart(s) ==
    IF s # <<>> /\ IsSpace(Head(s)) THEN TrimStart(Tail(s)) ELSE s

RECURSIVE TrimEnd(_)
TrimEnd(s) ==
    IF s # <<>> /\ IsSpace(s[Len(s)]) THEN TrimEnd(SubSeq(s, 1, Len(s) - 1)) ELSE s

\* String.prototype.trim
Trim(s) == TrimEnd(TrimStart(s))

\* !field.value.trim()
IsBlank(s) == Trim(s) = <<>>

\* Variant: the class excludes white space only (\S).
InClass_AllowsAt(c) == ~IsSpace(c)

\* [^\s@]
InClass(c) == ~IsSpace(c) /\ c # "@"

\* Variant: the expression has no $ anchor.
EmailRegexTest_NoEndAnchor(s) ==
    \E i, j, e \in 1 .. Len(s) :
        /\ 1 < i /\ i + 1 < j /\ j < e
        /\ s[i] = "@"
        /\ s[j] = "."
        /\ \A k \in 1 .. e : k \notin {i, j} => InClass(s[k])

\* /^[^\s@]+@[^\s@]+\.[^\s@]+$/.test(s): s splits into a non-empty run of the
\* class, '@', a non-empty run, '.', a non-empty run.
EmailRegexTest(s) ==
    \E i, j \in 1 .. Len(s) :
        /\ 1 < i /\ i + 1 < j /\ j < Len(s)
        /\ s[i] = "@"
        /\ s[j] = "."
        /\ \A k \in 1 .. Len(s) : k \notin {i, j} => InClass(s[k])

\* The value isValid has after the requiredFields.forEach loop.
RequiredFieldsValid ==
    /\ \A f \in RequiredFields : ~IsBlank(reqValue[f])
    /\ (hasEmail /\ emailRequired) => ~IsBlank(emailValue)

\* The condition under which the email branch sets isValid = false.
EmailFormatInvalid ==
    hasEmail /\ emailValue # <<>> /\ ~EmailRegexTest(emailValue)

\* validateForm(formElement): the loop over the required fields (the email
\* input among them when it is required), then the email format check.
ValidateForm ==
    /\ reqError' = [f \in RequiredFields |-> IsBlank(reqValue[f])]
    /\ emailError' =
          LET afterLoop == IF hasEmail /\ emailRequired
                           THEN IsBlank(emailValue)
                           ELSE emailError
          IN  IF EmailFormatInvalid THEN TRUE ELSE afterLoop
    /\ lastResult' = IF RequiredFieldsValid /\ ~EmailFormatInvalid THEN "true" ELSE "false"
    /\ UNCHANGED <<pc, scrollVars, foamVars, uncaught, menuVars, faqVars, hasEmail,
                   emailRequired, emailValue, nRequired, reqValue>>

\* The user types a character into the email input, or deletes the last one.
EditEmail(v) ==
    /\ hasEmail
    /\ emailValue' = v
    /\ lastResult' = "none"
    /\ UNCHANGED <<pc, scrollVars, foamVars, uncaught, menuVars, faqVars, hasEmail,
                   emailRequired, emailError, nRequired, reqValue, reqError>>

\* The same for another required field.
EditRequired(f, v) ==
    /\ reqValue' = [reqValue EXCEPT ![f] = v]
    /\ lastResult' = "none"
    /\ UNCHANGED <<pc, scrollVars, foamVars, uncaught, menuVars, faqVars, hasEmail,
                   emailRequired, emailValue, emailError, nRequired, reqError>>

\* The values one keystroke away from s.
Keystrokes(s, chars, n) ==
    { Append(s, c) : c \in IF Len(s) < n THEN chars ELSE {} }
        \cup (IF s = <<>> THEN {} ELSE { SubSeq(s, 1, Len(s) - 1) })

\* The DOMContentLoaded handler: the init functions, in call order.
DOMContentLoaded ==
    /\ pc = "loading"
    /\ pc' = "ready"
    /\ InitMobileMenu
    /\ InitFAQ
    /\ InitScrollAnimations
    /\ InitFoamAnimation
    /\ UNCHANGED <<hasIO, nElements, timers, scheduled, reveals, reported, lastEntries,
                   lastTimers, nPrimary, nInterstitial, hasSvg, frameRan, threwPrimary,
                   threwInterstitial, uncaught, hasToggle, hasMenu, nLinks, nFaq, formVars>>

\* -------------------------------------------------------- specifications
\* The page as loaded, before DOMContentLoaded fires.
PageInit ==
    /\ pc = "loading"
    /\ hasIO \in BOOLEAN
    /\ nElements \in 0 .. MaxElements
    /\ style = [e \in Elements |-> UnsetStyle]
    /\ mutations = [e \in Elements |-> 0]
    /\ observerCreated = FALSE
    /\ observeCalls = 0
    /\ observed = {}
    /\ timers = <<>>
    /\ scheduled = [e \in Elements |-> 0]
    /\ reveals = [e \in Elements |-> 0]
    /\ reported = {}
    /\ lastEntries = <<>>
    /\ lastTimers = <<>>
    /\ nPrimary \in 0 .. MaxPrimary
    /\ nInterstitial \in 0 .. MaxInterstitial
    /\ hasSvg \in BOOLEAN
    /\ rafRequests = 0
    /\ rafPending = FALSE
    /\ frameRan = FALSE
    /\ primary = [i \in PrimaryCells |-> UnsetCell]
    /\ interstitial = [j \in InterstitialCells |-> UnsetCell]
    /\ bboxQueries = 0
    /\ threwPrimary = {}
    /\ threwInterstitial = {}
    /\ uncaught = FALSE
    /\ hasToggle \in BOOLEAN
    /\ hasMenu \in BOOLEAN
    /\ nLinks \in 0 .. (IF hasMenu THEN MaxLinks ELSE 0)
    /\ menuWired = FALSE
    /\ menuActive = FALSE
    /\ toggleActive = FALSE
    /\ bodyOverflow = ""
    /\ lastMenuEvent = "none"
    /\ nFaq \in 0 .. MaxFaq
    /\ nFaq <= nElements
    /\ faqWired = FALSE
    /\ faqActive \in [FaqItems -> BOOLEAN]
    /\ lastFaqClicked = -1
    /\ faqWasActive = FALSE

\* The shape of the form: an email input or none, required or not, and the
\* other required fields.
FormShape ==
    /\ hasEmail \in BOOLEAN
    /\ emailRequired \in (IF hasEmail THEN BOOLEAN ELSE {FALSE})
    /\ nRequired \in 0 .. MaxRequired
    /\ emailError = FALSE
    /\ reqError = [f \in RequiredFields |-> FALSE]
    /\ lastResult = "none"

\* A form nobody has typed into.
FormFresh ==
    /\ FormShape
    /\ emailValue = <<>>
    /\ reqValue = [f \in RequiredFields |-> <<>>]

\* A form filled in with any values.
FormFilled ==
    /\ FormShape
    /\ emailValue \in (IF hasEmail THEN Strings(EmailChars, MaxEmailLen) ELSE {<<>>})
    /\ reqValue \in [RequiredFields -> Strings(TextChars, MaxTextLen)]

\* A page without a form.
NoForm ==
    /\ hasEmail = FALSE
    /\ emailRequired = FALSE
    /\ nRequired = 0
    /\ emailError = FALSE
    /\ reqError = <<>>
    /\ lastResult = "none"
    /\ emailValue = <<>>
    /\ reqValue = <<>>

Init == PageInit /\ FormFresh

\* Pages without a mobile menu, without FAQ items, without foam.
NoMenu == ~hasToggle /\ ~hasMenu
NoFaq == nFaq = 0
NoFoam == nPrimary = 0 /\ nInterstitial = 0 /\ hasSvg = FALSE

\* A page with watched elements (cards) only.
InitScroll == PageInit /\ NoFoam /\ NoMenu /\ NoFaq /\ NoForm

\* A page with foam only.
InitFoam == PageInit /\ nElements = 0 /\ NoMenu /\ NoFaq /\ NoForm

\* A page with a mobile menu and FAQ items, which are its watched elements.
InitUI == PageInit /\ NoFoam /\ nElements = nFaq /\ NoForm

\* A page with a form only, as loaded.
InitForm == PageInit /\ nElements = 0 /\ NoFoam /\ NoMenu /\ NoFaq /\ FormFresh

\* The same with the form filled in.
InitValidate == PageInit /\ nElements = 0 /\ NoFoam /\ NoMenu /\ NoFaq /\ FormFilled

NextScroll ==
    \/ DOMContentLoaded
    \/ \E entries \in EntryLists(observed) : IntersectionCallback(entries)
    \/ TimerFire
    \/ Tick

NextFoam ==
    \/ DOMContentLoaded
    \/ \E throwingP \in SUBSET PrimaryCells, throwingI \in SUBSET InterstitialCells,
          seed \in 0 .. (Len(RandomDraws) - 1) :
            AnimationFrame(throwingP, throwingI, seed)

NextUI ==
    \/ DOMContentLoaded
    \/ ToggleClick
    \/ \E link \in 0 .. (nLinks - 1) : LinkClick(link)
    \/ \E key \in Keys : KeyDown(key)
    \/ \E item \in FaqItems : FaqClick(item)

NextForm ==
    \/ ValidateForm
    \/ \E v \in Keystrokes(emailValue, EmailChars, MaxEmailLen) : EditEmail(v)
    \/ \E f \in RequiredFields :
          \E v \in Keystrokes(reqValue[f], TextChars, MaxTextLen) : EditRequired(f, v)

\* validateForm called on a form as it is.
NextValidate == ValidateForm

\* The components share no state: SpecScroll, SpecFoam, SpecUI and SpecForm
\* explore each on its own, Spec is their product.
Next == NextScroll \/ NextFoam \/ NextUI \/ NextForm

SpecScroll == InitScroll /\ [][NextScroll]_vars
SpecFoam == InitFoam /\ [][NextFoam]_vars
SpecUI == InitUI /\ [][NextUI]_vars
SpecForm == InitForm /\ [][NextForm]_vars
SpecValidate == InitValidate /\ [][NextValidate]_vars
Spec == Init /\ [][Next]_vars

\* Timers run: a due setTimeout callback is eventually called, and time passes.
SpecScrollFair == SpecScroll /\ WF_vars(TimerFire) /\ WF_vars(Tick)

\* ------------------------------------------------------------ properties
TimersFor(e) == { p \in 1 .. Len(timers) : timers[p].target = e }

\* C1: once an element has been revealed, no step reveals it again, schedules
\* another reveal timer for it or assigns any of its style properties, whatever
\* notifications follow.
C1_RevealAtMostOnce ==
    [][\A e \in Elements :
          reveals[e] >= 1 =>
              /\ reveals'[e] = reveals[e]
              /\ scheduled'[e] = scheduled[e]
              /\ mutations'[e] = mutations[e]
              /\ style'[e] = style[e]
              /\ TimersFor(e) = {}]_vars

\* A revealed element, and a later notification (about other elements) that
\* scheduled a timer.
C1_Witness ==
    \E e \in Elements :
        /\ reveals[e] = 1
        /\ IsRevealed(style[e])
        /\ lastTimers # <<>>
        /\ \A p \in 1 .. Len(lastEntries) : lastEntries[p].target # e

\* C2 as stated: the k-th timer a notification schedules (k = 0, 1, ...), the
\* one of its k-th intersecting element, has delay k * 100 ms.
C2_DelaysByIntersectingRank ==
    \A k \in 1 .. Len(lastTimers) : lastTimers[k].delay = (k - 1) * 100

\* C2, amended: a notification schedules one timer per intersecting entry, in
\* entry order, and the entry at 0-based position p of the notification
\* (non-intersecting entries counted) gets delay p * 100 ms; when every entry
\* of the notification intersects the delays are 0, 100, ..., (N-1) * 100.
C2_DelaysByEntryPosition ==
    LET inter == { p \in 1 .. Len(lastEntries) : lastEntries[p].isIntersecting }
        rank(p) == Cardinality({ q \in inter : q <= p })
    IN  /\ Len(lastTimers) = Cardinality(inter)
        /\ \A p \in inter :
              /\ lastTimers[rank(p)].target = lastEntries[p].target
              /\ lastTimers[rank(p)].delay = (p - 1) * 100
        /\ (Cardinality(inter) = Len(lastEntries)) =>
              \A k \in 1 .. Len(lastTimers) : lastTimers[k].delay = (k - 1) * 100

\* A notification with a non-intersecting entry ahead of two intersecting ones.
C2_Witness ==
    /\ Len(lastEntries) = 3
    /\ ~lastEntries[1].isIntersecting
    /\ lastEntries[2].isIntersecting
    /\ lastEntries[3].isIntersecting
    /\ Len(lastTimers) = 2

\* C3: without IntersectionObserver, once the handlers have run no watched
\* element is in the hidden state.
C3_NoObserverNothingHidden ==
    (pc = "ready" /\ ~hasIO) => \A e \in Elements : ~IsHidden(style[e])

\* The script has run on a page with watched elements and no IntersectionObserver.
C3_Witness == pc = "ready" /\ ~hasIO /\ nElements >= 2

\* C4: a watched element no notification has reported as intersecting keeps
\* the hidden initial style, has no reveal timer and has never been revealed.
C4_NeverIntersectingStaysHidden ==
    \A e \in Elements :
        (observerCreated /\ e \notin reported) =>
            /\ IsHidden(style[e])
            /\ TimersFor(e) = {}
            /\ scheduled[e] = 0
            /\ reveals[e] = 0

\* An element still hidden after a notification reported it as not
\* intersecting, while another element has been revealed.
C4_Witness ==
    \E e, f \in Elements :
        /\ e \notin reported
        /\ \E p \in 1 .. Len(lastEntries) : lastEntries[p].target = e
        /\ IsHidden(style[e])
        /\ reveals[f] = 1

\* C5: with an empty selection initScrollAnimations creates no observer, makes
\* no observe call, schedules nothing and raises nothing.
C5_EmptySelectionNoOp ==
    (pc = "ready" /\ nElements = 0) =>
        /\ ~observerCreated
        /\ observeCalls = 0
        /\ observed = {}
        /\ timers = <<>>
        /\ style = <<>>
        /\ mutations = <<>>
        /\ ~uncaught

\* The script has run with IntersectionObserver present and nothing selected.
C5_Witness == pc = "ready" /\ hasIO /\ nElements = 0

\* C6 as stated: after the frame callback primary cell i has the class
\* phase-contract exactly when i is odd, and no interstitial cell has it.
C6_ContractExactlyOnOddIndices ==
    frameRan =>
        /\ \A i \in PrimaryCells :
              ("phase-contract" \in primary[i].classes) <=> (i % 2 = 1)
        /\ \A j \in InterstitialCells : "phase-contract" \notin interstitial[j].classes

\* C7 as stated: after the frame callback every cell has had exactly one
\* animation-delay and one animation-duration assignment.
C7_EveryCellAssignedOnce ==
    frameRan =>
        /\ \A i \in PrimaryCells :
              primary[i].delayWrites = 1 /\ primary[i].durationWrites = 1
        /\ \A j \in InterstitialCells :
              interstitial[j].delayWrites = 1 /\ interstitial[j].durationWrites = 1

\* C8: after the frame callback every cell of both sequences has been queried
\* and has had its transform-origin assigned once, a cell whose getBBox threw
\* has transform-origin 'center center', the others the centre of their box,
\* and no exception has escaped.
C8_BBoxFailureIsLocal ==
    frameRan =>
        /\ ~uncaught
        /\ bboxQueries = nPrimary + nInterstitial
        /\ \A i \in PrimaryCells :
              /\ primary[i].originWrites = 1
              /\ primary[i].transformOrigin.kind =
                    IF i \in threwPrimary THEN "center center" ELSE "px"
        /\ \A j \in InterstitialCells :
              /\ interstitial[j].originWrites = 1
              /\ interstitial[j].transformOrigin.kind =
                    IF j \in threwInterstitial THEN "center center" ELSE "px"

\* The first primary cell threw, a later primary cell and an interstitial cell
\* did not.
C8_Witness ==
    /\ frameRan
    /\ 0 \in threwPrimary
    /\ \E i \in PrimaryCells : i > 0 /\ i \notin threwPrimary
    /\ \E j \in InterstitialCells : j \notin threwInterstitial

FoamUntouched ==
    /\ bboxQueries = 0
    /\ \A i \in PrimaryCells : primary[i] = UnsetCell
    /\ \A j \in InterstitialCells : interstitial[j] = UnsetCell

\* C9: with no primary cell no animation-frame callback is ever requested and
\* no cell is queried or mutated.
C9_NoPrimaryNoWork ==
    nPrimary = 0 => (rafRequests = 0 /\ ~rafPending /\ ~frameRan /\ FoamUntouched)

\* The script has run on a page with the container and interstitial cells only.
C9_Witness == pc = "ready" /\ nPrimary = 0 /\ nInterstitial > 0 /\ hasSvg

\* C10: until the frame callback has run no cell has been queried or mutated,
\* the callback runs only after the DOMContentLoaded handler has returned, and
\* it is requested at most once.
C10_WorkOnlyInFrameCallback ==
    /\ ~frameRan => FoamUntouched
    /\ frameRan => pc = "ready"
    /\ rafRequests <= 1
    /\ rafPending => (rafRequests = 1 /\ ~frameRan)

\* initFoamAnimation has returned with the callback requested and not yet run.
C10_Witness ==
    pc = "ready" /\ rafPending /\ ~frameRan /\ nPrimary > 0 /\ nInterstitial > 0


\* C11: every timing value assigned lies within its documented bounds (in
\* 1/10000 s): primary cell i has delay in [-1.5 i - 0.4, -1.5 i + 0.4] s and
\* duration in [19, 21] s, interstitial cell j has delay in
\* [-0.6 j - 0.75, -0.6 j + 0.75] s and duration in [4.25, 5.75] s.
C11_TimingWithinBounds ==
    /\ \A i \in PrimaryCells :
          /\ \A v \in { primary[i].animationDelay[k] :
                          k \in 1 .. Len(primary[i].animationDelay) } :
                (-15000) * i - 4000 <= v /\ v <= (-15000) * i + 4000
          /\ \A v \in { primary[i].animationDuration[k] :
                          k \in 1 .. Len(primary[i].animationDuration) } :
                190000 <= v /\ v <= 210000
    /\ \A j \in InterstitialCells :
          /\ \A v \in { interstitial[j].animationDelay[k] :
                          k \in 1 .. Len(interstitial[j].animationDelay) } :
                (-6000) * j - 7500 <= v /\ v <= (-6000) * j + 7500
          /\ \A v \in { interstitial[j].animationDuration[k] :
                          k \in 1 .. Len(interstitial[j].animationDuration) } :
                42500 <= v /\ v <= 57500

\* The frame callback has assigned a primary cell of index 2 or more from the
\* smallest draw and an interstitial cell from the largest one.
C11_Witness ==
    /\ frameRan
    /\ \E i \in PrimaryCells :
          /\ i >= 2
          /\ primary[i].animationDelay = <<(-15000) * i - 4000>>
    /\ \E j \in InterstitialCells :
          /\ interstitial[j].animationDuration # <<>>
          /\ interstitial[j].animationDuration[1] > 57000


\* C13: an element that has been revealed, and an element with a pending
\* reveal timer, is not under observation.
C13_RevealedOrPendingNotObserved ==
    \A e \in Elements :
        (reveals[e] >= 1 \/ IsRevealed(style[e]) \/ TimersFor(e) # {}) => e \notin observed

\* One element revealed, another with its timer pending, a third still observed.
C13_Witness ==
    \E e, f, g \in Elements :
        /\ reveals[e] = 1 /\ e \notin observed
        /\ TimersFor(f) # {} /\ f \notin observed
        /\ g \in observed

\* C14: under fair timers, every element a notification reports as
\* intersecting is eventually revealed, opacity 1 and translateY(0) together.
C14_IntersectingEventuallyRevealed ==
    \A e \in 0 .. (MaxElements - 1) :
        (e \in reported) ~> (e \in Elements /\ IsRevealed(style[e]))

\* An element revealed by a timer that had a positive stagger delay.
C14_Witness ==
    \E e \in Elements :
        /\ e \in reported
        /\ e \notin observed
        /\ IsRevealed(style[e])
        /\ \E k \in 1 .. Len(lastTimers) :
              lastTimers[k].target = e /\ lastTimers[k].delay > 0

\* C18 as stated: once initFoamAnimation has run, no frame callback is
\* requested only when there is no primary cell, with or without a
\* '.foam-cells' element, and the callback assigns every cell.
C18_WorkUnlessNoPrimary ==
    pc = "ready" =>
        /\ (rafRequests = 0) <=> (nPrimary = 0)
        /\ frameRan =>
              /\ \A i \in PrimaryCells : primary[i].delayWrites = 1
              /\ \A j \in InterstitialCells : interstitial[j].delayWrites = 1

\* C18, amended: no work is done when there is no primary cell or no
\* '.foam-cells' element; with a primary cell and the element present the
\* frame callback is requested once, and when it has run every cell has been
\* queried and has its transform-origin, and its delay and duration unless
\* its getBBox threw.
C18_WorkUnlessNoPrimaryOrNoContainer ==
    pc = "ready" =>
        /\ (nPrimary = 0 \/ ~hasSvg) => (rafRequests = 0 /\ ~frameRan /\ FoamUntouched)
        /\ (nPrimary > 0 /\ hasSvg) =>
              /\ rafRequests = 1
              /\ frameRan =>
                    /\ bboxQueries = nPrimary + nInterstitial
                    /\ \A i \in PrimaryCells :
                          /\ primary[i].originWrites = 1
                          /\ primary[i].delayWrites = IF i \in threwPrimary THEN 0 ELSE 1
                          /\ primary[i].durationWrites = IF i \in threwPrimary THEN 0 ELSE 1
                    /\ \A j \in InterstitialCells :
                          /\ interstitial[j].originWrites = 1
                          /\ interstitial[j].delayWrites =
                                IF j \in threwInterstitial THEN 0 ELSE 1
                          /\ interstitial[j].durationWrites =
                                IF j \in threwInterstitial THEN 0 ELSE 1

\* initFoamAnimation has run on a page with primary and interstitial cells and
\* no '.foam-cells' element.
C18_Witness ==
    pc = "ready" /\ nPrimary > 0 /\ nInterstitial > 0 /\ ~hasSvg /\ rafRequests = 0


\* C15: after a click on the question of an item no other item is active and
\* the clicked item is active exactly when it was not before the click; so
\* after any click at most one item is active.
C15_AccordionOneOpen ==
    lastFaqClicked # -1 =>
        /\ \A j \in FaqItems : j # lastFaqClicked => ~faqActive[j]
        /\ faqActive[lastFaqClicked] = ~faqWasActive
        /\ Cardinality({ j \in FaqItems : faqActive[j] }) <= 1

\* A click that closed the open item of an accordion of three.
C15_Witness ==
    /\ nFaq = 3
    /\ lastFaqClicked = 1
    /\ faqWasActive
    /\ \A j \in FaqItems : ~faqActive[j]

MenuInSync ==
    /\ menuActive = toggleActive
    /\ menuActive = (bodyOverflow = "hidden")
    /\ bodyOverflow \in {"", "hidden"}

\* C16: from a closed menu, the menu's 'active' class, the toggle's 'active'
\* class and the body scroll lock are on together or off together in every
\* state; all three are off after a link click or an Escape press; and a
\* step whose last menu event is an Escape press on a closed menu changes none.
C16_MenuInSync ==
    /\ [](MenuInSync /\ (lastMenuEvent \in {"link", "Escape"} => ~menuActive))
    /\ [][(lastMenuEvent' = "Escape" /\ ~menuActive) =>
             UNCHANGED <<menuActive, toggleActive, bodyOverflow>>]_vars

\* The toggle button has opened the menu again after a link click closed it:
\* all three are on.
C16_Witness ==
    /\ menuWired
    /\ lastMenuEvent = "toggle"
    /\ menuActive /\ toggleActive /\ bodyOverflow = "hidden"
    /\ nLinks > 0


\* A value with a character other than white space.
HasVisibleChar(s) == \E k \in 1 .. Len(s) : s[k] # " "

\* local@domain.tld: no white space, exactly one '@', something before it,
\* and after it a '.' with something on both sides.
LooksLikeEmail(s) ==
    LET ats == { k \in 1 .. Len(s) : s[k] = "@" }
    IN  /\ \A k \in 1 .. Len(s) : s[k] # " "
        /\ Cardinality(ats) = 1
        /\ \A a \in ats :
              /\ a > 1
              /\ \E d \in (a + 2) .. (Len(s) - 1) : s[d] = "."

\* The field failed the call: required and blank, or the email input with a
\* non-empty value that is no address.
RequiredFieldFails(f) == ~HasVisibleChar(reqValue[f])
EmailFieldFails ==
    \/ emailRequired /\ ~HasVisibleChar(emailValue)
    \/ emailValue # <<>> /\ ~LooksLikeEmail(emailValue)

\* C12: validateForm returns true exactly when every required field has a
\* value that is not blank after trimming and the email input, if there is one
\* with a non-empty value, holds an address of the form local@domain.tld.
C12_ValidIffRequiredAndEmail ==
    lastResult # "none" =>
        ((lastResult = "true") <=>
            /\ \A f \in RequiredFields : HasVisibleChar(reqValue[f])
            /\ (hasEmail /\ emailRequired) => HasVisibleChar(emailValue)
            /\ (hasEmail /\ emailValue # <<>>) => LooksLikeEmail(emailValue))

\* validateForm returned true for a form with an address in the required
\* email input and a value in the other required field.
C12_Witness ==
    /\ lastResult = "true"
    /\ hasEmail /\ emailRequired
    /\ emailValue = <<"a", "@", "a", ".", "a">>
    /\ nRequired = 1
    /\ reqValue[0] = <<"a">>

\* C17 as stated: after a call a field carries the 'error' class exactly when
\* it failed validation in that call, and no field carries it when the call
\* returned true.
C17_ErrorClassIffFailed ==
    lastResult # "none" =>
        /\ \A f \in RequiredFields : reqError[f] <=> RequiredFieldFails(f)
        /\ hasEmail => (emailError <=> EmailFieldFails)
        /\ lastResult = "true" => (~emailError /\ \A f \in RequiredFields : ~reqError[f])

====
